---------------------------- MODULE Spec2Model ----------------------------
(***************************************************************************)
(* Inkblot: the load-or-create configuration pipeline (crates/config),     *)
(* the store bootstrap (crates/database) and the shared configuration      *)
(* handle (crates/appstate).                                               *)
(***************************************************************************)
EXTENDS Integers, Sequences, FiniteSets, TLC

VARIABLES
    path,       \* the configuration path handed to load_config, as components
    dirs,       \* directories that exist, each as its component sequence
    file,       \* the configuration file: [exists, content]
    call,       \* per caller: the position and locals of its load_config call
    ncalls,     \* load_config calls started so far
    hist,       \* the finished load_config calls, in order of completion
    edited,     \* TRUE once the file was edited from outside
    mkdirLog,   \* directories created so far, as <<call id, directory>>
    createLog,  \* ids of the calls that created the configuration file
    dbfile,     \* the store file: [exists, kind, tables]
    open,       \* the position and locals of the Db::from_path call in progress
    nopens,     \* Db::from_path calls started so far
    dbhist,     \* the finished Db::from_path calls, in order
    cells,      \* the shared allocations: each a Mutex<Config> [value, holder, waiters]
    handle,     \* per task: the allocation its AppState points to, 0 for none
    tpc,        \* per task: where it stands with the lock
    pending,    \* per task: the Config it is writing
    seen        \* per task: the Config it found when it last acquired the lock

cfgVars == <<path, dirs, file, call, ncalls, hist, edited, mkdirLog, createLog>>
dbVars == <<dbfile, open, nopens, dbhist>>

shVars == <<cells, handle, tpc, pending, seen>>

vars == <<cfgVars, dbVars, shVars>>

(***************************************************************************)
(* Bounds of the model.                                                    *)
(***************************************************************************)
NumCallers == 2
MaxCalls == 3

Callers == 1..NumCallers

(***************************************************************************)
(* ConfigModel: crates/config/src/lib.rs, Config and InterfaceConfig.      *)
(***************************************************************************)
DefaultPort == 3250
U16Max == 65535

MkConfig(i, p, d) == [network |-> [interface |-> i, port |-> p], database_path |-> d]

InterfaceConfigDefault == [interface |-> "0.0.0.0", port |-> DefaultPort]

ConfigDefault == [network |-> InterfaceConfigDefault, database_path |-> "database.db"]

\* The value a failed parse leaves behind in the model's bookkeeping.
NoConfig == MkConfig("", 0, "")

(***************************************************************************)
(* The structured text of a configuration file, as a sequence of tokens.   *)
(***************************************************************************)
Tok(k, s, n) == [k |-> k, s |-> s, n |-> n]
LB == Tok("lb", "", 0)
RB == Tok("rb", "", 0)
COLON == Tok("colon", "", 0)
COMMA == Tok("comma", "", 0)
WS == Tok("ws", "", 0)
COMMENT == Tok("comment", "", 0)
BADUTF8 == Tok("badutf8", "", 0)
Str(s) == Tok("str", s, 0)
Num(n) == Tok("num", "", n)

\* A serializer that writes the port as a quoted string.
to_string_pretty_quoted(c) ==
    << LB, WS, Str("network"), COLON, WS,
           LB, WS, Str("interface"), COLON, WS, Str(c.network.interface), COMMA, WS,
                   Str("port"), COLON, WS, Str("port"), WS,
           RB, COMMA, WS,
       Str("database_path"), COLON, WS, Str(c.database_path), WS,
       RB >>

\* serde_jsonrc::to_string_pretty of a Config: the derived Serialize writes
\* the fields in declaration order, pretty-printed.
to_string_pretty(c) ==
    << LB, WS, Str("network"), COLON, WS,
           LB, WS, Str("interface"), COLON, WS, Str(c.network.interface), COMMA, WS,
                   Str("port"), COLON, WS, Num(c.network.port), WS,
           RB, COMMA, WS,
       Str("database_path"), COLON, WS, Str(c.database_path), WS,
       RB >>


(***************************************************************************)
(* serde_jsonrc::from_str::<Config>: a lenient JSON reader (whitespace and *)
(* comments are skipped, a trailing comma is accepted) followed by the     *)
(* derived Deserialize of Config (every field required exactly once,       *)
(* unknown fields ignored, port within u16).                               *)
(***************************************************************************)
Val(k, s, n, m) == [k |-> k, s |-> s, n |-> n, m |-> m]
NullVal == Val("null", "", 0, <<>>)
ParseFail == [ok |-> FALSE, v |-> NullVal, rest |-> <<>>]
ParseOk(v, rest) == [ok |-> TRUE, v |-> v, rest |-> rest]

IsBlank(t) == t.k \in {"ws", "comment"}
Strip(text) == SelectSeq(text, LAMBDA t : ~IsBlank(t))

RECURSIVE ParseValue(_), ParseMembers(_, _)
ParseValue(t) ==
    IF t = <<>> THEN ParseFail
    ELSE IF Head(t).k \in {"str", "num"}
         THEN ParseOk(Val(Head(t).k, Head(t).s, Head(t).n, <<>>), Tail(t))
    ELSE IF Head(t).k = "lb" THEN ParseMembers(Tail(t), <<>>)
    ELSE ParseFail

ParseMembers(t, acc) ==
    IF t = <<>> THEN ParseFail
    ELSE IF Head(t).k = "rb" THEN ParseOk(Val("obj", "", 0, acc), Tail(t))
    ELSE IF Len(t) < 3 \/ Head(t).k # "str" \/ t[2].k # "colon" THEN ParseFail
    ELSE LET r == ParseValue(SubSeq(t, 3, Len(t)))
             acc2 == Append(acc, <<Head(t).s, r.v>>)
         IN  IF ~r.ok \/ r.rest = <<>> THEN ParseFail
             ELSE IF Head(r.rest).k = "comma" THEN ParseMembers(Tail(r.rest), acc2)
             ELSE IF Head(r.rest).k = "rb"
                  THEN ParseOk(Val("obj", "", 0, acc2), Tail(r.rest))
             ELSE ParseFail

\* The values an object gives for a field name, in order of appearance.
Field(v, name) == SelectSeq(v.m, LAMBDA e : e[1] = name)
HasOne(v, name, kind) == Len(Field(v, name)) = 1 /\ Field(v, name)[1][2].k = kind
Get(v, name) == Field(v, name)[1][2]

IsInterfaceConfig(v) ==
    /\ v.k = "obj"
    /\ HasOne(v, "interface", "str")
    /\ HasOne(v, "port", "num")
    /\ Get(v, "port").n \in 0..U16Max

IsConfig(v) ==
    /\ v.k = "obj"
    /\ Len(Field(v, "network")) = 1
    /\ IsInterfaceConfig(Get(v, "network"))
    /\ HasOne(v, "database_path", "str")

from_str(text) ==
    LET r == ParseValue(Strip(text))
    IN  IF r.ok /\ r.rest = <<>> /\ IsConfig(r.v)
        THEN [ok |-> TRUE,
              cfg |-> MkConfig(Get(Get(r.v, "network"), "interface").s,
                               Get(Get(r.v, "network"), "port").n,
                               Get(r.v, "database_path").s)]
        ELSE [ok |-> FALSE, cfg |-> NoConfig]

\* std::fs::read_to_string rejects bytes that are not UTF-8.
IsUtf8(text) == \A i \in 1..Len(text) : text[i].k # "badutf8"

(***************************************************************************)
(* Files a configuration path may hold before the program runs.            *)
(***************************************************************************)
CustomConfig == MkConfig("127.0.0.1", 8080, "data/app.db")

TextPortString ==
    << LB, Str("network"), COLON, LB, Str("interface"), COLON, Str("0.0.0.0"), COMMA,
       Str("port"), COLON, Str("not-a-number"), RB, RB >>
TextPortRange ==
    << LB, Str("network"), COLON, LB, Str("interface"), COLON, Str("0.0.0.0"), COMMA,
       Str("port"), COLON, Num(U16Max + 1), RB, COMMA,
       Str("database_path"), COLON, Str("database.db"), RB >>
TextReordered ==
    << LB, COMMENT, Str("database_path"), COLON, Str("data/app.db"), COMMA,
       Str("extra"), COLON, Num(1), COMMA,
       Str("network"), COLON, LB, Str("port"), COLON, Num(8080), COMMA,
       Str("interface"), COLON, Str("127.0.0.1"), COMMA, RB, COMMA, RB >>
TextMissingField ==
    << LB, Str("network"), COLON, LB, Str("interface"), COLON, Str("0.0.0.0"), COMMA,
       Str("port"), COLON, Num(DefaultPort), RB, RB >>
TextUnbalanced ==
    << LB, Str("network"), COLON, LB, Str("interface"), COLON, Str("0.0.0.0"), COMMA,
       Str("port"), COLON, Num(DefaultPort), COMMA,
       Str("database_path"), COLON, Str("database.db"), RB >>
TextMissingComma ==
    << LB, Str("network"), COLON, LB, Str("interface"), COLON, Str("0.0.0.0"),
       Str("port"), COLON, Num(DefaultPort), RB, COMMA,
       Str("database_path"), COLON, Str("database.db"), RB >>
TextBinary == << BADUTF8, LB, RB >>

InitialTexts ==
    { to_string_pretty(ConfigDefault), to_string_pretty(CustomConfig), TextReordered,
      TextPortString, TextPortRange, TextMissingField, TextUnbalanced,
      TextMissingComma, TextBinary, <<>> }

(***************************************************************************)
(* The filesystem as load_config sees it.                                  *)
(***************************************************************************)
MaxDepth == 2
DirNames == << "cfg", "a", "b", "c", "d" >>
FileName == "app.json"

CfgPaths == { SubSeq(DirNames, 1, k) \o << FileName >> : k \in 0..MaxDepth }

\* Path::parent: the path without its last component.
Parent(p) == SubSeq(p, 1, Len(p) - 1)
\* The first j ancestors of a directory, the directory itself included.
Ancestors(d, j) == { SubSeq(d, 1, i) : i \in 1..j }

\* Path::exists on a directory path; the empty path names nothing.
DirExists(d) == d # << >> /\ d \in dirs
\* Whether a file can be created in directory d.
DirUsable(d) == d = << >> \/ d \in dirs
\* Path::exists on the configuration path.
PathExists == file.exists

Missing(d) == { i \in 1..Len(d) : SubSeq(d, 1, i) \notin dirs }
\* The directory create_dir_all makes next: the shallowest missing ancestor.
NextMissing(d) == SubSeq(d, 1, CHOOSE i \in Missing(d) : \A j \in Missing(d) : i <= j)

NoFile == [exists |-> FALSE, content |-> << >>]
FileOf(text) == [exists |-> TRUE, content |-> text]

(***************************************************************************)
(* One load_config call: its position and locals.                          *)
(***************************************************************************)
Idle ==
    [pc |-> "idle", id |-> 0, branch |-> "none", json |-> << >>, content |-> << >>,
     outcome |-> "none", failure |-> "none", result |-> NoConfig, writes |-> 0,
     mkdirs |-> 0, missing |-> 0, fault |-> FALSE, pre |-> NoFile]

\* An I/O step failed for a reason outside the program (permissions, disk).
Fault(r) == [r EXCEPT !.fault = TRUE]
\* panic!: the call unwinds; no value reaches the caller.
Panic(r, step) == [r EXCEPT !.pc = "done", !.outcome = "panicked", !.failure = step]
\* The call hands a Config back to its caller.
Returned(r, cfg) == [r EXCEPT !.pc = "done", !.outcome = "returned", !.result = cfg]

AllIdle == \A c \in Callers : call[c].pc = "idle"

InitCfg ==
    /\ path \in CfgPaths
    /\ \E j \in 0..Len(Parent(path)) :
          /\ dirs = Ancestors(Parent(path), j)
          /\ file \in {NoFile} \cup
                      (IF j = Len(Parent(path))
                       THEN { FileOf(t) : t \in InitialTexts } ELSE {})
    /\ call = [c \in Callers |-> Idle]
    /\ ncalls = 0
    /\ hist = << >>
    /\ edited = FALSE
    /\ mkdirLog = {}
    /\ createLog = << >>

\* main.rs: the entry of load_config.
Start(c) ==
    /\ call[c].pc = "idle"
    /\ ncalls < MaxCalls
    /\ ncalls' = ncalls + 1
    /\ call' = [call EXCEPT ![c] = [Idle EXCEPT !.pc = "exists", !.id = ncalls + 1,
                                                !.pre = file]]
    /\ UNCHANGED <<path, dirs, file, hist, edited, mkdirLog, createLog>>

\* A call that starts while no other call is in progress.
StartSeq(c) == AllIdle /\ Start(c)

\* A loader that rewrites the defaults whatever it finds at the path.
ExistsBranchRewrite(r) ==
    [r EXCEPT !.pc = "parent", !.branch = IF PathExists THEN "exists" ELSE "absent"]

\* if !path.exists() { ... } else { ... }
ExistsBranch(r) ==
    IF ~PathExists THEN [r EXCEPT !.pc = "parent", !.branch = "absent"]
                   ELSE [r EXCEPT !.pc = "read", !.branch = "exists"]

CheckExists(c) ==
    /\ call[c].pc = "exists"
    /\ call' = [call EXCEPT ![c] = ExistsBranch(call[c])]
    /\ UNCHANGED <<path, dirs, file, ncalls, hist, edited, mkdirLog, createLog>>

\* A loader that never creates the directories.
ParentBranchSkip(r) == [r EXCEPT !.pc = "serialize"]

\* if let Some(parent) = path.parent() { if !parent.exists() { create_dir_all } }
ParentBranch(r) ==
    IF ~DirExists(Parent(path))
    THEN [r EXCEPT !.pc = "mkdir", !.missing = Cardinality(Missing(Parent(path)))]
    ELSE [r EXCEPT !.pc = "serialize"]

CheckParent(c) ==
    /\ call[c].pc = "parent"
    /\ call' = [call EXCEPT ![c] = ParentBranch(call[c])]
    /\ UNCHANGED <<path, dirs, file, ncalls, hist, edited, mkdirLog, createLog>>

\* fs::create_dir_all(parent): one mkdir per missing ancestor, shallowest first.
MkdirOk(c) ==
    /\ call[c].pc = "mkdir"
    /\ Missing(Parent(path)) # {}
    /\ dirs' = dirs \cup {NextMissing(Parent(path))}
    /\ mkdirLog' = mkdirLog \cup {<<call[c].id, NextMissing(Parent(path))>>}
    /\ call' = [call EXCEPT ![c].writes = @ + 1, ![c].mkdirs = @ + 1]
    /\ UNCHANGED <<path, file, ncalls, hist, edited, createLog>>

\* create_dir_all fails: unwrap_or_else(|err| panic!(...)).
MkdirFail(c) ==
    /\ call[c].pc = "mkdir"
    /\ Missing(Parent(path)) # {}
    /\ call' = [call EXCEPT ![c] = Panic(Fault([call[c] EXCEPT !.mkdirs = @ + 1]), "dir")]
    /\ UNCHANGED <<path, dirs, file, ncalls, hist, edited, mkdirLog, createLog>>

\* create_dir_all returns Ok: nothing (left) to create.
MkdirDone(c) ==
    /\ call[c].pc = "mkdir"
    /\ Missing(Parent(path)) = {}
    /\ call' = [call EXCEPT ![c].pc = "serialize"]
    /\ UNCHANGED <<path, dirs, file, ncalls, hist, edited, mkdirLog, createLog>>

\* let json = serde_jsonrc::to_string_pretty(&default_config)
Serialize(c) ==
    /\ call[c].pc = "serialize"
    /\ call' = [call EXCEPT ![c].pc = "create", ![c].json = to_string_pretty(ConfigDefault)]
    /\ UNCHANGED <<path, dirs, file, ncalls, hist, edited, mkdirLog, createLog>>

\* fs::write, first half: File::create opens the file, creating or truncating it.
WriteCreate(c) ==
    /\ call[c].pc = "create"
    /\ DirUsable(Parent(path))
    /\ file' = FileOf(<< >>)
    /\ createLog' = IF file.exists THEN createLog ELSE Append(createLog, call[c].id)
    /\ call' = [call EXCEPT ![c].pc = "write", ![c].writes = @ + 1]
    /\ UNCHANGED <<path, dirs, ncalls, hist, edited, mkdirLog>>

\* fs::write fails to open the file (its directory is missing, or an I/O
\* error): panic.
WriteCreateFail(c) ==
    /\ call[c].pc = "create"
    /\ call' = [call EXCEPT ![c] =
                   Panic(IF DirUsable(Parent(path)) THEN Fault(call[c]) ELSE call[c], "write")]
    /\ UNCHANGED <<path, dirs, file, ncalls, hist, edited, mkdirLog, createLog>>

\* fs::write, second half: write_all of the serialized text; then default_config
\* is the value of the block and the function returns it.
WriteContent(c) ==
    /\ call[c].pc = "write"
    /\ file' = FileOf(call[c].json)
    /\ call' = [call EXCEPT ![c] = Returned([call[c] EXCEPT !.writes = @ + 1], ConfigDefault)]
    /\ UNCHANGED <<path, dirs, ncalls, hist, edited, mkdirLog, createLog>>

\* write_all fails: the file keeps what reached it (nothing, or a part); panic.
WriteContentFail(c) ==
    /\ call[c].pc = "write"
    /\ \E n \in {0, Len(call[c].json) \div 2} :
          file' = FileOf(SubSeq(call[c].json, 1, n))
    /\ call' = [call EXCEPT ![c] = Panic(Fault(call[c]), "write")]
    /\ UNCHANGED <<path, dirs, ncalls, hist, edited, mkdirLog, createLog>>

\* let content = fs::read_to_string(path)
ReadOk(c) ==
    /\ call[c].pc = "read"
    /\ IsUtf8(file.content)
    /\ call' = [call EXCEPT ![c].pc = "parse", ![c].content = file.content]
    /\ UNCHANGED <<path, dirs, file, ncalls, hist, edited, mkdirLog, createLog>>

\* read_to_string fails (I/O error, or bytes that are not UTF-8): panic.
ReadFail(c) ==
    /\ call[c].pc = "read"
    /\ call' = [call EXCEPT ![c] =
                   Panic(IF IsUtf8(file.content) THEN Fault(call[c]) ELSE call[c], "read")]
    /\ UNCHANGED <<path, dirs, file, ncalls, hist, edited, mkdirLog, createLog>>

\* A loader that falls back to the defaults when the file does not parse.
ParseResultFallback(r) ==
    IF from_str(r.content).ok THEN Returned(r, from_str(r.content).cfg)
                              ELSE Returned(r, ConfigDefault)

\* serde_jsonrc::from_str(&content).unwrap_or_else(|err| panic!(...))
ParseResult(r) ==
    IF from_str(r.content).ok THEN Returned(r, from_str(r.content).cfg)
                              ELSE Panic(r, "parse")

\* A loader that replaces a file it cannot parse by the defaults.
ParseOrRestore(c) ==
    /\ call[c].pc = "parse"
    /\ call' = [call EXCEPT ![c] = ParseResult(call[c])]
    /\ file' = IF from_str(call[c].content).ok THEN file
                ELSE FileOf(to_string_pretty(ConfigDefault))
    /\ UNCHANGED <<path, dirs, ncalls, hist, edited, mkdirLog, createLog>>

Parse(c) ==
    /\ call[c].pc = "parse"
    /\ call' = [call EXCEPT ![c] = ParseResult(call[c])]
    /\ UNCHANGED <<path, dirs, file, ncalls, hist, edited, mkdirLog, createLog>>

\* The call is over: its caller has the Config, or the panic has unwound.
Return(c) ==
    /\ call[c].pc = "done"
    /\ hist' = Append(hist, call[c])
    /\ call' = [call EXCEPT ![c] = Idle]
    /\ UNCHANGED <<path, dirs, file, ncalls, edited, mkdirLog, createLog>>

\* A person edits the configuration file between two runs.
EditFile ==
    /\ AllIdle
    /\ ~edited
    /\ file.exists
    /\ \E t \in InitialTexts \ {file.content} : file' = FileOf(t)
    /\ edited' = TRUE
    /\ UNCHANGED <<path, dirs, call, ncalls, hist, mkdirLog, createLog>>

Step(c) ==
    \/ CheckExists(c) \/ CheckParent(c)
    \/ MkdirOk(c) \/ MkdirFail(c) \/ MkdirDone(c)
    \/ Serialize(c)
    \/ WriteCreate(c) \/ WriteCreateFail(c)
    \/ WriteContent(c) \/ WriteContentFail(c)
    \/ ReadOk(c) \/ ReadFail(c)
    \/ Parse(c)
    \/ Return(c)

\* load_config called again and again, one call at a time.
NextSeq == ((\E c \in Callers : StartSeq(c) \/ Step(c)) \/ EditFile) /\ UNCHANGED <<dbVars, shVars>>

\* load_config called from concurrent tasks.
NextRace == (\E c \in Callers : Start(c) \/ Step(c)) /\ UNCHANGED <<dbVars, shVars>>

(***************************************************************************)
(* StoreBootstrap: crates/database/src/lib.rs, Db::from_path.              *)
(***************************************************************************)
MaxOpens == 3
MaxRows == 1

DbPaths == { "", "database.db" }

\* struct User: the columns of a user record.
UserCols == << "username", "password_hash", "salt", "permissions" >>

\* /sql/init_db.sql, included at compile time: one declarative statement that
\* creates the users table unless it exists.
InitScript ==
    << [op |-> "create_table", name |-> "users", cols |-> UserCols, ifNotExists |-> TRUE] >>

Table(name, cols, rows) == [name |-> name, cols |-> cols, rows |-> rows]
NoDbFile == [exists |-> FALSE, kind |-> "none", tables |-> {}]
DbFileOf(kind, tables) == [exists |-> TRUE, kind |-> kind, tables |-> tables]

\* The schema a connection shows: the tables and their columns.
Schema(f) == { [name |-> t.name, cols |-> t.cols] : t \in f.tables }
HasTable(f, name) == \E t \in f.tables : t.name = name

\* One schema statement run by the store engine against a file it can read.
ExecStmt(stmt, f) ==
    IF HasTable(f, stmt.name)
    THEN [ok |-> stmt.ifNotExists, file |-> f]
    ELSE [ok |-> TRUE,
          file |-> DbFileOf("db", f.tables \cup {Table(stmt.name, stmt.cols, 0)})]

\* A bootstrap that hands out the connection without running the script.
execute_skipped(script, f) == [ok |-> TRUE, file |-> f]

\* conn.execute(init_script, []): prepares and runs the first statement of the
\* text; a file that is no store is refused.
execute(script, f) ==
    IF f.kind = "garbage" THEN [ok |-> FALSE, file |-> f]
    ELSE ExecStmt(Head(script), f)

InitialStores ==
    { NoDbFile, DbFileOf("empty", {}), DbFileOf("garbage", {}), DbFileOf("db", {}) }
    \cup { DbFileOf("db", {Table("users", UserCols, n)}) : n \in 0..MaxRows }
    \cup { DbFileOf("db", {Table("users", UserCols, n), Table("notes", << "body" >>, 1)}) :
             n \in 0..MaxRows }
    \cup { DbFileOf("db", {Table("users", << "name" >>, n)}) : n \in 0..MaxRows }
    \cup { DbFileOf("db", {Table("notes", << "body" >>, 1)}) }

NoOpen ==
    [pc |-> "idle", id |-> 0, path |-> "", outcome |-> "none", err |-> "none",
     fault |-> FALSE, created |-> FALSE, opened |-> FALSE, executed |-> FALSE,
     pre |-> NoDbFile, post |-> NoDbFile, schema |-> {}]

\* return Err(...) and the ? operator: the error goes back to the caller.
Err(r, step) == [r EXCEPT !.pc = "done", !.outcome = "err", !.err = step, !.post = dbfile]

InitDb ==
    /\ dbfile \in InitialStores
    /\ open = NoOpen
    /\ nopens = 0
    /\ dbhist = << >>

\* The store is not used.
InitDbQuiet ==
    /\ dbfile = NoDbFile
    /\ open = NoOpen
    /\ nopens = 0
    /\ dbhist = << >>

\* The configuration loader is not used.
InitCfgQuiet ==
    /\ path = << FileName >>
    /\ dirs = {}
    /\ file = NoFile
    /\ call = [c \in Callers |-> Idle]
    /\ ncalls = 0
    /\ hist = << >>
    /\ edited = FALSE
    /\ mkdirLog = {}
    /\ createLog = << >>

\* The entry of Db::from_path(path).
DbStart(p) ==
    /\ open.pc = "idle"
    /\ nopens < MaxOpens
    /\ nopens' = nopens + 1
    /\ open' = [NoOpen EXCEPT !.pc = "check", !.id = nopens + 1, !.path = p, !.pre = dbfile]
    /\ UNCHANGED <<dbfile, dbhist>>

\* A bootstrap that accepts the empty path.
IsEmptyNever(p) == FALSE

\* path.is_empty()
IsEmpty(p) == p = ""

\* if path.is_empty() { return Err("Path cannot be empty".into()); }
DbCheckEmpty ==
    /\ open.pc = "check"
    /\ open' = IF IsEmpty(open.path) THEN Err(open, "precondition")
                                     ELSE [open EXCEPT !.pc = "exists"]
    /\ UNCHANGED <<dbfile, nopens, dbhist>>

\* A bootstrap that creates the file whether or not it exists.
StoreExistsNever(p) == FALSE

\* Path::exists(Path::new(path)); the empty path names nothing.
StoreExists(p) == p # "" /\ dbfile.exists

\* if !Path::exists(Path::new(path)) { ... }
DbCheckExists ==
    /\ open.pc = "exists"
    /\ open' = [open EXCEPT !.pc = IF StoreExists(open.path) THEN "open" ELSE "create"]
    /\ UNCHANGED <<dbfile, nopens, dbhist>>

\* std::fs::File::create(path)?: creates the file, or truncates it, to empty.
DbCreate ==
    /\ open.pc = "create"
    /\ open.path # ""
    /\ dbfile' = DbFileOf("empty", {})
    /\ open' = [open EXCEPT !.pc = "open", !.created = TRUE]
    /\ UNCHANGED <<nopens, dbhist>>

\* File::create fails (the empty path cannot be created, or an I/O error).
DbCreateFail ==
    /\ open.pc = "create"
    /\ open' = Err([open EXCEPT !.fault = (open.path # "")], "create")
    /\ UNCHANGED <<dbfile, nopens, dbhist>>

\* let conn = Connection::open(path)?
DbOpen ==
    /\ open.pc = "open"
    /\ open' = [open EXCEPT !.pc = "execute", !.opened = TRUE]
    /\ UNCHANGED <<dbfile, nopens, dbhist>>

DbOpenFail ==
    /\ open.pc = "open"
    /\ open' = Err([open EXCEPT !.fault = TRUE], "open")
    /\ UNCHANGED <<dbfile, nopens, dbhist>>

\* conn.execute(init_script, [])?; Ok(Self { conn })
DbExecute ==
    /\ open.pc = "execute"
    /\ LET r == execute(InitScript, dbfile)
       IN  IF r.ok
           THEN /\ dbfile' = r.file
                /\ open' = [open EXCEPT !.pc = "done", !.outcome = "ok", !.executed = TRUE,
                                        !.post = r.file, !.schema = Schema(r.file)]
           ELSE /\ dbfile' = dbfile
                /\ open' = Err([open EXCEPT !.executed = TRUE], "execute")
    /\ UNCHANGED <<nopens, dbhist>>

\* The statement fails on an I/O error of the store engine.
DbExecuteFail ==
    /\ open.pc = "execute"
    /\ open' = Err([open EXCEPT !.fault = TRUE], "execute")
    /\ UNCHANGED <<dbfile, nopens, dbhist>>

\* The caller has the Result.
DbReturn ==
    /\ open.pc = "done"
    /\ dbhist' = Append(dbhist, open)
    /\ open' = NoOpen
    /\ UNCHANGED <<dbfile, nopens>>

\* Db::from_path called again and again.
NextDb ==
    /\ \/ \E p \in DbPaths : DbStart(p)
       \/ DbCheckEmpty \/ DbCheckExists
       \/ DbCreate \/ DbCreateFail
       \/ DbOpen \/ DbOpenFail
       \/ DbExecute \/ DbExecuteFail
       \/ DbReturn
    /\ UNCHANGED <<cfgVars, shVars>>

(***************************************************************************)
(* SharedConfigHandle: crates/appstate/src/lib.rs, AppState, a cloneable   *)
(* Arc<tokio::sync::Mutex<Config>>.                                        *)
(***************************************************************************)
NumTasks == 3

Tasks == 1..NumTasks

\* The models a task may store, each written field by field.
WholeConfigs == { ConfigDefault, CustomConfig }

Cell(v) == [value |-> v, holder |-> 0, waiters |-> << >>]

InitShared ==
    /\ cells = << Cell(ConfigDefault) >>
    /\ handle = [t \in Tasks |-> IF t = 1 THEN 1 ELSE 0]
    /\ tpc = [t \in Tasks |-> IF t = 1 THEN "ready" ELSE "none"]
    /\ pending = [t \in Tasks |-> ConfigDefault]
    /\ seen = [t \in Tasks |-> ConfigDefault]

\* A handle whose clone copies the model into an allocation of its own.
CloneDeep(h) == Len(cells) + 1

\* #[derive(Clone)] on AppState clones the Arc: the same allocation.
CloneArc(h) == h

\* A task gets its AppState as a clone of another task's.
Clone(t, u) ==
    /\ tpc[t] # "none"
    /\ tpc[u] = "none"
    /\ handle' = [handle EXCEPT ![u] = CloneArc(handle[t])]
    /\ cells' = IF CloneArc(handle[t]) > Len(cells)
                 THEN Append(cells, Cell(cells[handle[t]].value))
                 ELSE cells
    /\ tpc' = [tpc EXCEPT ![u] = "ready"]
    /\ UNCHANGED <<pending, seen>>

\* config.lock().await: the task queues for the mutex.
Lock(t) ==
    /\ tpc[t] = "ready"
    /\ cells' = [cells EXCEPT ![handle[t]].waiters = Append(@, t)]
    /\ tpc' = [tpc EXCEPT ![t] = "waiting"]
    /\ UNCHANGED <<handle, pending, seen>>

\* The mutex is free and the task is first in line: lock() completes.
Acquire(t) ==
    /\ tpc[t] = "waiting"
    /\ cells[handle[t]].holder = 0
    /\ Head(cells[handle[t]].waiters) = t
    /\ cells' = [cells EXCEPT ![handle[t]].holder = t, ![handle[t]].waiters = Tail(@)]
    /\ seen' = [seen EXCEPT ![t] = cells[handle[t]].value]
    /\ tpc' = [tpc EXCEPT ![t] = "holding"]
    /\ UNCHANGED <<handle, pending>>

\* The holder starts storing a model: the interface first.
WriteBegin(t, cfg) ==
    /\ tpc[t] = "holding"
    /\ cells' = [cells EXCEPT ![handle[t]].value.network.interface = cfg.network.interface]
    /\ pending' = [pending EXCEPT ![t] = cfg]
    /\ tpc' = [tpc EXCEPT ![t] = "writing"]
    /\ UNCHANGED <<handle, seen>>

\* The holder stores the remaining fields.
WriteEnd(t) ==
    /\ tpc[t] = "writing"
    /\ cells' = [cells EXCEPT ![handle[t]].value = pending[t]]
    /\ tpc' = [tpc EXCEPT ![t] = "holding"]
    /\ UNCHANGED <<handle, pending, seen>>

\* The guard is dropped: the mutex is free again.
Unlock(t) ==
    /\ tpc[t] = "holding"
    /\ cells' = [cells EXCEPT ![handle[t]].holder = 0]
    /\ tpc' = [tpc EXCEPT ![t] = "ready"]
    /\ UNCHANGED <<handle, pending, seen>>

InitSharedQuiet == InitShared

NextShared ==
    /\ \/ \E t, u \in Tasks : Clone(t, u)
       \/ \E t \in Tasks : Lock(t) \/ Acquire(t) \/ WriteEnd(t) \/ Unlock(t)
       \/ \E t \in Tasks : \E cfg \in WholeConfigs : WriteBegin(t, cfg)
    /\ UNCHANGED <<cfgVars, dbVars>>

Init == InitCfg /\ InitDbQuiet /\ InitSharedQuiet

Spec == Init /\ [][NextSeq]_vars

SpecRace == Init /\ [][NextRace]_vars

InitStore == InitCfgQuiet /\ InitDb /\ InitSharedQuiet

SpecDb == InitStore /\ [][NextDb]_vars

InitHandle == InitCfgQuiet /\ InitDbQuiet /\ InitShared

SpecShared == InitHandle /\ [][NextShared]_vars

(***************************************************************************)
(* Properties of load_config.                                              *)
(***************************************************************************)
\* Every load_config call so far: the finished ones and those in progress.
Records == { hist[i] : i \in 1..Len(hist) } \cup { call[c] : c \in Callers }
Done == { r \in Records : r.pc = "done" }

\* C1: on a path with no file, load_config returns interface "0.0.0.0", port
\* 3250, database_path "database.db"; the file exists afterwards; and as long as
\* the file is not edited, every later load_config reads the file and returns
\* an equal model (it ends otherwise only on an I/O fault).
C1_DefaultMaterialization ==
    \A r \in Done :
        (r.branch = "absent" /\ r.outcome = "returned") =>
            /\ r.result = MkConfig("0.0.0.0", 3250, "database.db")
            /\ file.exists
            /\ ~edited =>
                 \A s \in Done :
                     s.id > r.id =>
                        /\ s.branch = "exists"
                        /\ s.outcome = "returned" => s.result = r.result
                        /\ s.outcome = "panicked" => s.fault

C1_Witness ==
    /\ ~edited
    /\ \E r, s \in Done :
          /\ r.branch = "absent" /\ r.outcome = "returned"
          /\ s.id > r.id /\ s.branch = "exists" /\ s.outcome = "returned"

\* C2, as claimed: every failure inside load_config reaches the caller as a
\* value it can inspect; load_config never ends by unwinding its caller.
C2_FailuresAreValues == \A r \in Done : r.outcome # "panicked"

\* C2, amended: every failure inside load_config (directory creation, write,
\* read, parse) ends the call with a panic naming the failed step, no Config
\* reaches the caller, and nothing is retried: no directory is attempted twice
\* and the file is opened and written at most once.
C2_FailuresPanic ==
    \A r \in Done :
        /\ r.outcome = "panicked" <=> r.failure # "none"
        /\ r.outcome = "panicked" => r.result = NoConfig
        /\ r.fault => r.outcome = "panicked"
        /\ (r.branch = "exists" /\ ~from_str(r.content).ok) =>
              (r.outcome = "panicked" /\ r.failure \in {"read", "parse"})
        /\ r.mkdirs <= r.missing
        /\ r.writes <= r.mkdirs + 2

C2_Witness ==
    /\ \E r \in Done : r.failure = "parse" /\ r.content = TextPortString
    /\ \E r \in Done : r.failure = "dir"

\* C3: when the file exists and its content does not parse into a Config, the
\* call fails (with the parse diagnostic whenever the text was read), writes
\* nothing, and the file holds afterwards exactly what it held before.
C3_MalformedFileKept ==
    \A c \in Callers :
        (/\ call[c].pc = "done"
         /\ call[c].pre.exists
         /\ ~(IsUtf8(call[c].pre.content) /\ from_str(call[c].pre.content).ok)) =>
            /\ call[c].outcome = "panicked"
            /\ call[c].failure \in {"read", "parse"}
            /\ (IsUtf8(call[c].pre.content) /\ ~call[c].fault) => call[c].failure = "parse"
            /\ call[c].writes = 0
            /\ file = call[c].pre

C3_Witness ==
    \E c \in Callers :
        /\ call[c].pc = "done"
        /\ call[c].pre = FileOf(TextPortString)
        /\ call[c].failure = "parse"
        /\ file = FileOf(TextPortString)

\* C8: a call that finds a file at the path writes nothing, whether it succeeds
\* or fails; each directory and the file are created at most once over all the
\* calls, only by calls that found the path absent; and when the first call that
\* finds the path absent returns, it has made every one of these creations.
AbsentCalls == { r \in Records : r.branch = "absent" }
FirstAbsent(r) == r \in AbsentCalls /\ \A s \in AbsentCalls : r.id <= s.id
Creators == { e[1] : e \in mkdirLog } \cup { createLog[i] : i \in 1..Len(createLog) }

C8_CreateOnce ==
    /\ \A r \in Records : r.branch = "exists" => (r.writes = 0 /\ r.mkdirs = 0)
    /\ Len(createLog) <= 1
    /\ \A e1, e2 \in mkdirLog : e1[2] = e2[2] => e1 = e2
    /\ \A i \in Creators : \E r \in AbsentCalls : r.id = i
    /\ \A r \in Done :
          (FirstAbsent(r) /\ r.outcome = "returned") =>
              /\ Creators \subseteq {r.id}
              /\ createLog = << r.id >>
              /\ AbsentCalls = {r}

C8_Witness ==
    \E r, s, t \in Done :
        /\ r.branch = "absent" /\ r.outcome = "returned" /\ r.mkdirs > 0
        /\ s.id > r.id /\ s.branch = "exists" /\ s.outcome = "returned"
        /\ t.id > r.id /\ t.branch = "exists" /\ t.outcome = "panicked"

\* C9: a call on a path whose file is absent creates every missing ancestor
\* directory before it creates the file, and returns unless an I/O fault stops
\* it; when the parent directory exists no directory creation is attempted.
C9_DirectoriesFirst ==
    /\ \A c \in Callers : call[c].pc = "write" => Missing(Parent(path)) = {}
    /\ file.exists => Missing(Parent(path)) = {}
    /\ \A r \in Records : r.missing = 0 => r.mkdirs = 0
    /\ \A r \in Done :
          (r.branch = "absent" /\ ~r.fault) =>
              /\ r.outcome = "returned"
              /\ r.mkdirs = r.missing
              /\ \A i \in 1..Len(Parent(path)) : SubSeq(Parent(path), 1, i) \in dirs
              /\ file.exists

C9_Witness ==
    \E r \in Done :
        /\ r.branch = "absent" /\ r.outcome = "returned"
        /\ r.missing = Len(Parent(path)) /\ r.mkdirs >= 2

\* C10: when load_config calls on an initially absent path run concurrently
\* and no I/O fault occurs, every call returns the default model (none reads an
\* empty or partly written file) and the file ends with the serialized defaults.
InitiallyAbsent == \E r \in Records : r.id = 1 /\ ~r.pre.exists
NoFault == \A r \in Records : ~r.fault

C10_RaceSafe ==
    (InitiallyAbsent /\ NoFault) =>
        /\ \A r \in Done : r.outcome = "returned" /\ r.result = ConfigDefault
        /\ (ncalls > 0 /\ AllIdle) => file = FileOf(to_string_pretty(ConfigDefault))

(***************************************************************************)
(* Properties of Db::from_path.                                            *)
(***************************************************************************)
Opens == { dbhist[i] : i \in 1..Len(dbhist) } \cup { open }
Opened == { r \in Opens : r.pc = "done" }

\* C4: Db::from_path("") returns the precondition error and touches nothing:
\* no file is created, no connection opened, no script run, the store file is as
\* it was.
C4_EmptyPathRejected ==
    \A r \in Opened :
        r.path = "" =>
            /\ r.outcome = "err" /\ r.err = "precondition"
            /\ ~r.created /\ ~r.opened /\ ~r.executed
            /\ r.post = r.pre

C4_Witness ==
    \E r \in Opened : r.path = "" /\ r.outcome = "err" /\ r.pre.exists /\ r.pre.tables # {}

\* C5: when Db::from_path succeeded on a path, the next call on that path
\* succeeds too (unless an I/O fault stops it), shows the same schema, and
\* changes nothing: the file is not recreated or truncated and every table keeps
\* its columns and rows.
C5_IdempotentBootstrap ==
    \A r, s \in Opened :
        (/\ r.path # "" /\ s.path = r.path
         /\ r.outcome = "ok"
         /\ s.id > r.id) =>
            /\ ~s.fault => s.outcome = "ok"
            /\ s.outcome = "ok" => s.schema = r.schema
            /\ ~s.created
            /\ s.post = s.pre

C5_Witness ==
    \E r, s \in Opened :
        /\ r.path # "" /\ s.path = r.path /\ s.id > r.id
        /\ r.outcome = "ok" /\ r.created
        /\ s.outcome = "ok"

\* C6: whenever Db::from_path returns Ok the script has run and the store holds
\* the users table, with the declared columns when the file was absent, empty
\* or already initialized by the script.
ByScript(f) == \A t \in f.tables : t.name = "users" => t.cols = UserCols

Holding == { t \in Tasks : tpc[t] \in {"holding", "writing"} }

\* C7: at most one task holds access to the Config at any instant, a task that
\* acquires finds a whole model, never one half written by another task, and
\* every clone of the handle refers to the one underlying Config.
C7_ExclusiveAccess ==
    /\ Cardinality(Holding) <= 1
    /\ \A t \in Holding : cells[handle[t]].holder = t
    /\ \A t \in Tasks : seen[t] \in WholeConfigs
    /\ \A t, u \in Tasks : (handle[t] # 0 /\ handle[u] # 0) => handle[t] = handle[u]
    /\ Len(cells) = 1

C7_Witness ==
    \E t, u \in Tasks :
        /\ t # u
        /\ tpc[t] = "writing" /\ cells[handle[t]].value \notin WholeConfigs
        /\ tpc[u] = "waiting" /\ handle[u] = handle[t]

=============================================================================
